---------------------------- MODULE Spec2Model ----------------------------
(***************************************************************************)
(* Model of src/main.py: the yfinance -> Snowflake incremental loader.     *)
(*                                                                         *)
(* One behaviour of the model is a sequence of executions of the script    *)
(* (line 219: pipeline(...).run()) against one warehouse.  The warehouse   *)
(* (db) persists from one execution to the next; everything else is the    *)
(* state of the running process and is reset when a new execution starts.  *)
(* Nothing else writes to the warehouse.                                   *)
(*                                                                         *)
(* Strings are tuples of characters, so that str.upper() is computed.      *)
(* Tables and the frames appended to them are bags of rows; the frame the  *)
(* profile collector returns is a sequence, in completion order.  A row    *)
(* carries the columns the filters read: TICKER and DATE of a price row,   *)
(* TICKER of a profile row.                                                *)
(*                                                                         *)
(* The connection's database and schema are the ones the max-date query    *)
(* names, so TICKER_DATA and stock_data.historical_data.ticker_data are    *)
(* one table; stock_profiles and TICKER_PROFILES are two.  The provider    *)
(* returns price rows under the ticker as requested, and a profile symbol  *)
(* in a casing of its own.  A stage can fail where it does I/O: the schema *)
(* file or the download or a query fails, or a profile lookup raises.      *)
(***************************************************************************)
EXTENDS Integers, Sequences, FiniteSets, Bags, TLC

VARIABLES
    tickers,          \* self.tickers (lines 17, 91)
    cpu_count,        \* os.cpu_count() of the host (line 82)
    db,               \* the warehouse: table name -> bag of rows
    pc,               \* position of the running script
    runs,             \* executions of the script started so far
    stages,           \* stages of run() entered in this execution
    calls,            \* warehouse calls made in this execution
    stdout,           \* lines printed in this execution
    exception,        \* the exception that ended this execution, "" if none
    df,               \* load_price_data: df (line 156)
    filter_df,        \* load_price_data: filter_df (line 157)
    merged,           \* load_price_data: merged after line 165
    price,            \* run: price (line 212), <<>> is None
    fut,              \* threaded_profiling: the futures, by position in tickers
    yielded,          \* futures as_completed has yielded
    results,          \* threaded_profiling: results (line 81)
    existing_tickers, \* load_ticker_profiles: existing_tickers (line 194)
    profiles_df,      \* load_ticker_profiles: df after line 195
    profiles          \* run: profiles (line 213), <<>> before it is assigned

vars == <<tickers, cpu_count, db, pc, runs, stages, calls, stdout, exception,
          df, filter_df, merged, price, fut, yielded, results,
          existing_tickers, profiles_df, profiles>>

(***************************************************************************)
(* Bounds.                                                                 *)
(***************************************************************************)
MaxDate == 2      \* calendar dates are 1..MaxDate
MaxRuns == 2      \* executions of the script in one behaviour

Dates == 1..MaxDate

(***************************************************************************)
(* Strings.                                                                *)
(***************************************************************************)
Symbols == {<<"a">>, <<"A">>, <<"b">>, <<"B">>}

UpperChar(c) == CASE c = "a" -> "A" [] c = "b" -> "B" [] OTHER -> c

str_upper(s) == [i \in DOMAIN s |-> UpperChar(s[i])]

Range(s) == {s[i] : i \in DOMAIN s}

\* Ticker symbols as the script passes them: upper-case, as every symbol of
\* stock_tickers is (line 13).
stock_tickers == << <<"A">>, <<"B">> >>

\* self.tickers: a list of unique tickers, any sublist of stock_tickers,
\* the empty one included.
TickerLists ==
    {<<>>} \cup {<<stock_tickers[i]>> : i \in DOMAIN stock_tickers}
           \cup {<<stock_tickers[i], stock_tickers[j]>> :
                    <<i, j>> \in {p \in (DOMAIN stock_tickers) \X (DOMAIN stock_tickers) : p[1] < p[2]}}

\* os.cpu_count(): one processor, or at least as many as there are tickers.
CpuCounts == {1, Len(stock_tickers)}

\* What stock_profiles may hold before the first execution: any set of
\* tickers, in either casing.
ProfileTables == SUBSET Symbols

(***************************************************************************)
(* The warehouse.                                                          *)
(***************************************************************************)
\* The tables snowflake_schemas.yaml declares (read at lines 111-112).
schema == {"TICKER_DATA", "TICKER_PROFILES"}

\* A table name as the warehouse resolves it: the last part of a qualified
\* name, unquoted identifiers folded to upper case.
TableOf(name) ==
    CASE name = "stock_data.historical_data.ticker_data" -> "TICKER_DATA"
      [] name = "stock_profiles" -> "STOCK_PROFILES"
      [] OTHER -> name

\* CREATE TABLE IF NOT EXISTS for every table of the schema (lines 114-117).
CreateIfNotExists(d, tables) ==
    [t \in DOMAIN d \cup tables |-> IF t \in DOMAIN d THEN d[t] ELSE EmptyBag]

\* A frame held as a list of rows, as the bag write_pandas appends.
ListBag(rows) ==
    LET out == Range(rows)
    IN  [o \in out |-> Cardinality({i \in DOMAIN rows : rows[i] = o})]

\* write_pandas(conn, df, table_name, auto_create_table): the warehouse after
\* the append (lines 169-174, 198-203).
write_pandas_overwrites(d, frame, table_name, auto_create_table) ==
    IF table_name \in DOMAIN d
    THEN [d EXCEPT ![table_name] = frame]
    ELSE d

write_pandas(d, frame, table_name, auto_create_table) ==
    IF table_name \in DOMAIN d
    THEN [d EXCEPT ![table_name] = @ (+) frame]
    ELSE IF auto_create_table
         THEN [t \in DOMAIN d \cup {table_name} |->
                  IF t = table_name THEN frame ELSE d[t]]
         ELSE d

(***************************************************************************)
(* load_price_data.                                                        *)
(***************************************************************************)
\* The value a left join leaves where the right side has no row.
NaN == 0

isna(x) == x = NaN

Max(S) == CHOOSE x \in S : \A y \in S : y <= x

\* yf_data.price_data: what the provider may return for period='max': for
\* each requested ticker its whole daily history up to some day, one row per
\* (ticker, date), or no row at all (lines 29-46).
price_data_frames(ts) ==
    {UNION {{[TICKER |-> t, DATE |-> d] : d \in 1..h[t]} : t \in Range(ts)}
        : h \in [Range(ts) -> 0..MaxDate]}

\* date_checker: SELECT ticker, MAX(date) ... WHERE ticker IN (...) GROUP BY
\* ticker (lines 128-144).
date_checker(d, ts) ==
    LET name == TableOf("stock_data.historical_data.ticker_data")
        rows == {r \in BagToSet(d[name]) : r.TICKER \in Range(ts)}
    IN  {[TICKER |-> t, MAX_DATE |-> Max({r.DATE : r \in {q \in rows : q.TICKER = t}})]
            : t \in {r.TICKER : r \in rows}}

\* df.merge(right=filter_df, on='TICKER', how='left') (lines 159-163).
merge_left(left, right) ==
    {[TICKER |-> p[1].TICKER, DATE |-> p[1].DATE, MAX_DATE |-> p[2].MAX_DATE]
        : p \in {q \in left \X right : q[1].TICKER = q[2].TICKER}}
    \cup
    {[TICKER |-> l.TICKER, DATE |-> l.DATE, MAX_DATE |-> NaN]
        : l \in {k \in left : \A r \in right : r.TICKER # k.TICKER}}

\* merged['DATE'] > merged['MAX_DATE']: a comparison with NaN is False.
date_gt_inclusive(x, y) == IF isna(x) \/ isna(y) THEN FALSE ELSE x >= y

date_gt(x, y) == IF isna(x) \/ isna(y) THEN FALSE ELSE x > y

\* merged[(merged['DATE'] > merged['MAX_DATE']) | (merged['MAX_DATE'].isna())]
\* (line 165).
price_filter_marked_only(m) == {r \in m : date_gt(r.DATE, r.MAX_DATE)}

price_filter(m) == {r \in m : date_gt(r.DATE, r.MAX_DATE) \/ isna(r.MAX_DATE)}

\* merged.drop(columns='MAX_DATE') (line 166).
drop_max_date(r) == [TICKER |-> r.TICKER, DATE |-> r.DATE]

\* The frame merged without its MAX_DATE column, as the bag of rows
\* write_pandas appends (lines 166, 171).
FrameBag(rows) ==
    LET out == {drop_max_date(r) : r \in rows}
    IN  [o \in out |-> Cardinality({r \in rows : drop_max_date(r) = o})]

\* len(merged) > 0, len(df) > 0: the test that guards each write
\* (lines 168, 197).
has_rows_or_none(n) == n >= 0

has_rows(n) == n > 0

\* merged.groupby('TICKER').size() (line 176).
groupby_size(m) ==
    [t \in {r.TICKER : r \in m} |-> Cardinality({r \in m : r.TICKER = t})]

(***************************************************************************)
(* load_ticker_profiles.                                                   *)
(***************************************************************************)
\* yf_data.profile_data: the symbol the provider reports for a ticker, in the
\* provider's casing (lines 61-64).
info_symbols(t) == {s \in Symbols : str_upper(s) = str_upper(t)}

\* min(os.cpu_count(), len(self.tickers)) (line 82).
Min(a, b) == IF a <= b THEN a ELSE b

max_workers_unbounded(cpus, ts) == Len(ts)

max_workers(cpus, ts) == Min(cpus, Len(ts))

\* SELECT ticker FROM stock_profiles, upper-cased (lines 193-194).
read_existing_as_stored(d) ==
    {r.TICKER : r \in BagToSet(d[TableOf("stock_profiles")])}

read_existing(d) ==
    {str_upper(r.TICKER) : r \in BagToSet(d[TableOf("stock_profiles")])}

\* df[~df["TICKER"].str.upper().isin(existing_tickers)] (line 195).
profile_filter(frame, existing) ==
    LET keep(r) == str_upper(r.TICKER) \notin existing
    IN  SelectSeq(frame, keep)

(***************************************************************************)
(* The state machine.                                                      *)
(***************************************************************************)
\* A process that has just been started: nothing of run() has executed.
Fresh ==
    /\ pc = "start"
    /\ stages = <<>>
    /\ calls = <<>>
    /\ stdout = <<>>
    /\ exception = ""
    /\ df = {}
    /\ filter_df = {}
    /\ merged = {}
    /\ price = <<>>
    /\ fut = <<>>
    /\ yielded = {}
    /\ results = <<>>
    /\ existing_tickers = {}
    /\ profiles_df = <<>>
    /\ profiles = <<>>

\* The warehouse before the first execution: stock_profiles holds any set of
\* profile tickers; the tables of the schema are created by table_creator.
Init ==
    /\ tickers \in TickerLists
    /\ cpu_count \in CpuCounts
    /\ db \in {[t \in {"STOCK_PROFILES"} |-> SetToBag({[TICKER |-> s] : s \in S})]
                 : S \in ProfileTables}
    /\ runs = 1
    /\ Fresh

Call(op, table) == [op |-> op, table |-> table]

\* An exception that leaves run(): nothing catches it (lines 210-216).
Raise_and_continue(name) ==
    /\ exception' = name
    /\ pc' = "load_ticker_profiles"

Raise(name) ==
    /\ exception' = name
    /\ pc' = "aborted"

\* table_creator (lines 105-117), the first statement of run() (line 211).
table_creator ==
    /\ pc = "start"
    /\ stages' = Append(stages, "table_creator")
    /\ db' = CreateIfNotExists(db, schema)
    /\ calls' = calls \o <<Call("create", "TICKER_DATA"), Call("create", "TICKER_PROFILES")>>
    /\ pc' = "load_price_data"
    /\ UNCHANGED <<tickers, cpu_count, runs, stdout, exception, df, filter_df,
                   merged, price, fut, yielded, results, existing_tickers,
                   profiles_df, profiles>>

\* table_creator fails: the schema file or the warehouse is unavailable.
table_creator_raises ==
    /\ pc = "start"
    /\ stages' = Append(stages, "table_creator")
    /\ Raise("table_creator")
    /\ UNCHANGED <<tickers, cpu_count, db, runs, calls, stdout, df, filter_df,
                   merged, price, fut, yielded, results, existing_tickers,
                   profiles_df, profiles>>

\* load_price_data up to the filter (lines 156-166).
load_price_data_filter ==
    /\ pc = "load_price_data"
    /\ stages' = Append(stages, "load_price_data")
    /\ \E frame \in price_data_frames(tickers) : df' = frame
    /\ filter_df' = date_checker(db, tickers)
    /\ calls' = Append(calls, Call("read", TableOf("stock_data.historical_data.ticker_data")))
    /\ merged' = price_filter(merge_left(df', filter_df'))
    /\ pc' = "price_filtered"
    /\ UNCHANGED <<tickers, cpu_count, db, runs, stdout, exception, price, fut,
                   yielded, results, existing_tickers, profiles_df, profiles>>

\* The download or the max-date query fails (no retry, lines 156-157).
load_price_data_raises ==
    /\ pc = "load_price_data"
    /\ stages' = Append(stages, "load_price_data")
    /\ Raise("load_price_data")
    /\ UNCHANGED <<tickers, cpu_count, db, runs, calls, stdout, df, filter_df,
                   merged, price, fut, yielded, results, existing_tickers,
                   profiles_df, profiles>>

\* load_price_data from the length test to its return (lines 168-181).
load_price_data_write ==
    /\ pc = "price_filtered"
    /\ IF has_rows(Cardinality(merged))
       THEN IF "TICKER_DATA" \in DOMAIN db
            THEN /\ db' = write_pandas(db, FrameBag(merged), "TICKER_DATA", FALSE)
                 /\ calls' = Append(calls, Call("write", "TICKER_DATA"))
                 /\ price' = <<groupby_size(merged)>>
                 /\ pc' = "load_ticker_profiles"
                 /\ UNCHANGED <<stdout, exception>>
            ELSE /\ Raise("write_pandas")
                 /\ UNCHANGED <<db, calls, price, stdout>>
       ELSE /\ stdout' = Append(stdout, [text |-> "No valid rows to ingest", value |-> <<>>])
            /\ price' = <<>>
            /\ pc' = "load_ticker_profiles"
            /\ UNCHANGED <<db, calls, exception>>
    /\ df' = {}
    /\ filter_df' = {}
    /\ merged' = {}
    /\ UNCHANGED <<tickers, cpu_count, runs, stages, fut, yielded, results,
                   existing_tickers, profiles_df, profiles>>

(***************************************************************************)
(* threaded_profiling (lines 81-86).                                       *)
(***************************************************************************)
Future(state, failed, result) == [state |-> state, failed |-> failed, result |-> result]

Running == {i \in DOMAIN fut : fut[i].state = "RUNNING"}

\* ThreadPoolExecutor(max_workers=...) and the submits (lines 82-83);
\* the constructor raises ValueError unless max_workers > 0.
threaded_profiling_submit ==
    /\ pc = "load_ticker_profiles"
    /\ stages' = Append(stages, "load_ticker_profiles")
    /\ IF max_workers(cpu_count, tickers) <= 0
       THEN /\ Raise("ValueError")
            /\ UNCHANGED fut
       ELSE /\ fut' = [i \in DOMAIN tickers |-> Future("PENDING", FALSE, <<>>)]
            /\ pc' = "as_completed"
            /\ UNCHANGED exception
    /\ UNCHANGED <<tickers, cpu_count, db, runs, calls, stdout, df, filter_df,
                   merged, price, yielded, results, existing_tickers,
                   profiles_df, profiles>>

\* A worker of the pool takes the oldest queued call of profile_data.
worker_start(i) ==
    /\ pc \in {"as_completed", "shutdown"}
    /\ fut[i].state = "PENDING"
    /\ \A j \in DOMAIN fut : j < i => fut[j].state # "PENDING"
    /\ Cardinality(Running) < max_workers(cpu_count, tickers)
    /\ fut' = [fut EXCEPT ![i].state = "RUNNING"]
    /\ UNCHANGED <<tickers, cpu_count, db, pc, runs, stages, calls, stdout,
                   exception, df, filter_df, merged, price, yielded, results,
                   existing_tickers, profiles_df, profiles>>

\* profile_data(t) returns the provider's record (lines 61-71).
worker_returns(i) ==
    /\ pc \in {"as_completed", "shutdown"}
    /\ fut[i].state = "RUNNING"
    /\ \E s \in info_symbols(tickers[i]) :
          fut' = [fut EXCEPT ![i] = Future("FINISHED", FALSE, s)]
    /\ UNCHANGED <<tickers, cpu_count, db, pc, runs, stages, calls, stdout,
                   exception, df, filter_df, merged, price, yielded, results,
                   existing_tickers, profiles_df, profiles>>

\* profile_data(t) raises: the lookup of line 61 fails.
worker_raises(i) ==
    /\ pc \in {"as_completed", "shutdown"}
    /\ fut[i].state = "RUNNING"
    /\ fut' = [fut EXCEPT ![i] = Future("FINISHED", TRUE, <<>>)]
    /\ UNCHANGED <<tickers, cpu_count, db, pc, runs, stages, calls, stdout,
                   exception, df, filter_df, merged, price, yielded, results,
                   existing_tickers, profiles_df, profiles>>

\* future.result() re-raises the exception of a call that failed (line 85).
result_raises_never(f) == FALSE

result_raises(f) == f.failed

\* One turn of the as_completed loop: future.result() returns the record or
\* re-raises the lookup's exception (lines 84-85).
as_completed_next(i) ==
    /\ pc = "as_completed"
    /\ i \notin yielded
    /\ fut[i].state = "FINISHED"
    /\ yielded' = yielded \cup {i}
    /\ IF result_raises(fut[i])
       THEN /\ pc' = "shutdown"
            /\ exception' = "profile_data"
            /\ UNCHANGED results
       ELSE /\ results' = Append(results, [TICKER |-> fut[i].result])
            /\ UNCHANGED <<pc, exception>>
    /\ UNCHANGED <<tickers, cpu_count, db, runs, stages, calls, stdout, df,
                   filter_df, merged, price, fut, existing_tickers, profiles_df,
                   profiles>>

\* The exception leaves the with block once the pool has shut down, which
\* waits for every submitted call (line 82).
executor_exit_raises ==
    /\ pc = "shutdown"
    /\ \A i \in DOMAIN fut : fut[i].state = "FINISHED"
    /\ pc' = "aborted"
    /\ UNCHANGED <<tickers, cpu_count, db, runs, stages, calls, stdout,
                   exception, df, filter_df, merged, price, fut, yielded,
                   results, existing_tickers, profiles_df, profiles>>

\* threaded_profiling returns the frame; load_ticker_profiles reads the
\* existing tickers and filters (lines 86, 192-195).
load_ticker_profiles_filter ==
    /\ pc = "as_completed"
    /\ yielded = DOMAIN fut
    /\ existing_tickers' = read_existing(db)
    /\ calls' = Append(calls, Call("read", TableOf("stock_profiles")))
    /\ profiles_df' = profile_filter(results, existing_tickers')
    /\ pc' = "profiles_filtered"
    /\ UNCHANGED <<tickers, cpu_count, db, runs, stages, stdout, exception, df,
                   filter_df, merged, price, fut, yielded, results, profiles>>

\* load_ticker_profiles from the length test to its return (lines 197-208).
load_ticker_profiles_write ==
    /\ pc = "profiles_filtered"
    /\ IF has_rows(Len(profiles_df))
       THEN IF "TICKER_PROFILES" \in DOMAIN db
            THEN /\ db' = write_pandas(db, ListBag(profiles_df), "TICKER_PROFILES", FALSE)
                 /\ calls' = Append(calls, Call("write", "TICKER_PROFILES"))
                 /\ profiles' = <<Len(profiles_df)>>
                 /\ pc' = "print"
                 /\ UNCHANGED exception
            ELSE /\ Raise("write_pandas")
                 /\ UNCHANGED <<db, calls, profiles>>
       ELSE /\ profiles' = <<0>>
            /\ pc' = "print"
            /\ UNCHANGED <<db, calls, exception>>
    /\ fut' = <<>>
    /\ yielded' = {}
    /\ results' = <<>>
    /\ existing_tickers' = {}
    /\ profiles_df' = <<>>
    /\ UNCHANGED <<tickers, cpu_count, runs, stages, stdout, df, filter_df,
                   merged, price>>

\* The two prints that end run() (lines 215-216).
print_report ==
    /\ pc = "print"
    /\ stdout' = stdout \o <<[text |-> "price", value |-> price],
                             [text |-> "new profiles ingested", value |-> profiles]>>
    /\ pc' = "done"
    /\ UNCHANGED <<tickers, cpu_count, db, runs, stages, calls, exception, df,
                   filter_df, merged, price, fut, yielded, results,
                   existing_tickers, profiles_df, profiles>>

\* The script is executed again, against the same warehouse (line 219).
new_run ==
    /\ pc \in {"done", "aborted"}
    /\ runs < MaxRuns
    /\ runs' = runs + 1
    /\ pc' = "start"
    /\ stages' = <<>>
    /\ calls' = <<>>
    /\ stdout' = <<>>
    /\ exception' = ""
    /\ df' = {}
    /\ filter_df' = {}
    /\ merged' = {}
    /\ price' = <<>>
    /\ fut' = <<>>
    /\ yielded' = {}
    /\ results' = <<>>
    /\ existing_tickers' = {}
    /\ profiles_df' = <<>>
    /\ profiles' = <<>>
    /\ UNCHANGED <<tickers, cpu_count, db>>

Next ==
    \/ table_creator
    \/ table_creator_raises
    \/ load_price_data_filter
    \/ load_price_data_raises
    \/ load_price_data_write
    \/ threaded_profiling_submit
    \/ \E i \in DOMAIN fut : worker_start(i)
    \/ \E i \in DOMAIN fut : worker_returns(i)
    \/ \E i \in DOMAIN fut : worker_raises(i)
    \/ \E i \in DOMAIN fut : as_completed_next(i)
    \/ executor_exit_raises
    \/ load_ticker_profiles_filter
    \/ load_ticker_profiles_write
    \/ print_report
    \/ new_run

Spec == Init /\ [][Next]_vars

(***************************************************************************)
(* Properties.                                                             *)
(***************************************************************************)
Terminal == pc \in {"done", "aborted"}

HasCall(op, table) == \E i \in DOMAIN calls : calls[i] = Call(op, table)

Printed(text) == \E i \in DOMAIN stdout : stdout[i].text = text

\* Rows of a profile table whose ticker, upper-cased, is u.
ProfileRows(table, u) ==
    LET same == {r \in BagToSet(table) : str_upper(r.TICKER) = u}
    IN  BagCardinality([r \in same |-> table[r]])

\* Rows of the price table that belong to ticker t.
PriceRows(table, t) ==
    LET same == {r \in BagToSet(table) : r.TICKER = t}
    IN  BagCardinality([r \in same |-> table[r]])

\* C1: across any sequence of executions the price table never holds the
\* same (ticker, date) pair more than once.
C1_NoPriceRowTwice ==
    "TICKER_DATA" \in DOMAIN db =>
        \A r \in BagToSet(db["TICKER_DATA"]) : CopiesIn(r, db["TICKER_DATA"]) = 1

\* A later execution has appended new rows for a ticker that already had rows.
C1_Witness ==
    /\ runs > 1
    /\ pc = "load_ticker_profiles"
    /\ Len(price) = 1
    /\ \E t \in DOMAIN price[1] : PriceRows(db["TICKER_DATA"], t) > price[1][t]

\* C2: across any sequence of executions no ticker has more than one row in
\* the profile table TICKER_PROFILES.
C2_NoProfileTwice ==
    "TICKER_PROFILES" \in DOMAIN db =>
        \A u \in {str_upper(s) : s \in Symbols} : ProfileRows(db["TICKER_PROFILES"], u) <= 1

\* C3: after the left join and the filter, the kept rows are exactly the
\* fetched rows whose ticker has no high-water mark or whose date is strictly
\* greater than the mark; a row dated on the mark is dropped.
C3_PriceFilterExact ==
    pc = "price_filtered" =>
        LET kept == {drop_max_date(r) : r \in merged}
            mark(t) == {m \in filter_df : m.TICKER = t}
        IN  /\ kept \subseteq df
            /\ Cardinality(kept) = Cardinality(merged)
            /\ \A r \in df :
                  r \in kept <=> (mark(r.TICKER) = {} \/ \E m \in mark(r.TICKER) : r.DATE > m.MAX_DATE)
            /\ \A r \in df \ kept : \E m \in mark(r.TICKER) : r.DATE <= m.MAX_DATE

\* A ticker with a mark: the fetched row dated on the mark is dropped and a
\* later one is kept, while a ticker without a mark keeps its rows.
C3_Witness ==
    /\ pc = "price_filtered"
    /\ \E m \in filter_df :
          /\ [TICKER |-> m.TICKER, DATE |-> m.MAX_DATE] \in df
          /\ \A r \in merged : ~(r.TICKER = m.TICKER /\ r.DATE = m.MAX_DATE)
          /\ \E r \in merged : r.TICKER = m.TICKER /\ r.DATE > m.MAX_DATE
    /\ \E r \in merged : isna(r.MAX_DATE)

\* C4: the profile rows kept have tickers disjoint from the existing set when
\* both sides are upper-cased, and every fetched row whose upper-cased ticker
\* is not in the upper-cased existing set is kept.
C4_ProfileFilterCaseInsensitive ==
    pc = "profiles_filtered" =>
        LET stored == {r.TICKER : r \in BagToSet(db["STOCK_PROFILES"])}
            known(s) == \E x \in stored : str_upper(x) = str_upper(s)
            fresh == {i \in DOMAIN results : ~known(results[i].TICKER)}
        IN  /\ \A i \in DOMAIN profiles_df : ~known(profiles_df[i].TICKER)
            /\ Len(profiles_df) = Cardinality(fresh)
            /\ \A i \in fresh : \E j \in DOMAIN profiles_df : profiles_df[j] = results[i]

\* The existing set and a fetched ticker differ only in casing, and nothing
\* is kept.
C4_Witness ==
    /\ pc = "profiles_filtered"
    /\ Len(results) > 0
    /\ profiles_df = <<>>
    /\ \E i \in DOMAIN results :
          [TICKER |-> results[i].TICKER] \notin BagToSet(db["STOCK_PROFILES"])

\* C5: with an empty ticker list the profile stage ends without an error and
\* reports 0 new profiles.
C5_EmptyTickersNoError ==
    (Len(tickers) = 0 /\ Terminal /\ \E i \in DOMAIN stages : stages[i] = "load_ticker_profiles") =>
        (pc = "done" /\ exception = "" /\ profiles = <<0>>)

\* The new-row count a stage reports, None counting as no report.
RowCount(series) ==
    LET RECURSIVE Sum(_)
        Sum(S) == IF S = {} THEN 0
                  ELSE LET t == CHOOSE x \in S : TRUE IN series[t] + Sum(S \ {t})
    IN  Sum(DOMAIN series)

PriceStageEmpty == pc = "price_filtered" /\ merged = {}

ProfileStageEmpty == pc = "profiles_filtered" /\ profiles_df = <<>>

\* C6 as stated, for a ticker list that is not empty: with an empty filtered
\* result neither stage writes, neither fails, and each reports a new-row
\* count of 0.
C6_BothReportZero ==
    [][/\ (PriceStageEmpty /\ Len(tickers) > 0) =>
             /\ calls' = calls /\ db' = db /\ pc' = "load_ticker_profiles"
             /\ Len(price') = 1 /\ RowCount(price'[1]) = 0
       /\ ProfileStageEmpty =>
             /\ calls' = calls /\ db' = db /\ pc' = "print"
             /\ profiles' = <<0>>]_vars

\* C6 amended: with an empty filtered result neither stage writes and neither
\* fails; load_ticker_profiles reports 0, load_price_data returns None and
\* prints "No valid rows to ingest".
C6_NoWriteWhenEmpty ==
    [][/\ PriceStageEmpty =>
             /\ calls' = calls /\ db' = db /\ pc' = "load_ticker_profiles"
             /\ exception' = ""
             /\ price' = <<>>
             /\ stdout' = Append(stdout, [text |-> "No valid rows to ingest", value |-> <<>>])
       /\ ProfileStageEmpty =>
             /\ calls' = calls /\ db' = db /\ pc' = "print"
             /\ exception' = ""
             /\ profiles' = <<0>>]_vars

\* Both stages of one execution found nothing to load.
C6_Witness ==
    /\ pc = "print"
    /\ Len(tickers) > 0
    /\ price = <<>>
    /\ Printed("No valid rows to ingest")
    /\ profiles = <<0>>
    /\ ~HasCall("write", "TICKER_DATA")
    /\ ~HasCall("write", "TICKER_PROFILES")

StageOrder == <<"table_creator", "load_price_data", "load_ticker_profiles">>

IsPrefix(s, t) == Len(s) <= Len(t) /\ \A i \in DOMAIN s : s[i] = t[i]

\* The stages entered so far are the first stages of the fixed order, each
\* once; a write to the warehouse comes after both CREATE statements of
\* table_creator; a stage is entered only while no exception is pending.
C7_Order ==
    /\ IsPrefix(stages, StageOrder)
    /\ \A i \in DOMAIN calls :
          calls[i].op = "write" =>
              /\ i > 2
              /\ calls[1].op = "create" /\ calls[2].op = "create"
              /\ stages[1] = "table_creator"
    /\ pc = "done" => stages = StageOrder
    /\ exception # "" => pc \in {"shutdown", "aborted"}

\* Once an exception is pending no stage is entered and nothing is written or
\* printed: the only step left after the abort is the next execution.
C7_AbortIsFinal ==
    exception # "" =>
        \/ stages' = stages /\ calls' = calls /\ db' = db /\ stdout' = stdout
              /\ exception' = exception /\ pc' \in {"shutdown", "aborted"}
        \/ pc = "aborted" /\ runs' = runs + 1 /\ pc' = "start"

\* C7: in every execution the stages run in the order table_creator,
\* load_price_data, load_ticker_profiles, each at most once; nothing is
\* appended before table_creator has completed; a failed stage aborts the
\* execution and no later stage is started.
C7_StagesInOrder == []C7_Order /\ [][C7_AbortIsFinal]_vars

\* An execution that ran all three stages and wrote to both tables.
C7_Witness ==
    /\ pc = "done"
    /\ stages = StageOrder
    /\ HasCall("write", "TICKER_DATA")
    /\ HasCall("write", "TICKER_PROFILES")

\* C8: every step leaves every table in place with all of its rows (it only
\* adds rows), and no step of a load stage creates a table.
C8_AppendOnly ==
    [][/\ \A t \in DOMAIN db : t \in DOMAIN db' /\ db[t] \sqsubseteq db'[t]
       /\ pc # "start" => DOMAIN db' = DOMAIN db]_vars

\* A later execution appended price rows to a table that already held rows
\* and then aborted in the profile stage: the rows of both executions stay.
C8_Witness ==
    /\ runs > 1
    /\ pc = "aborted"
    /\ exception = "profile_data"
    /\ HasCall("write", "TICKER_DATA")
    /\ BagCardinality(db["TICKER_DATA"]) > 1
    /\ BagCardinality(db["TICKER_PROFILES"]) > 0

Collecting == pc \in {"as_completed", "shutdown"}

AllSucceed == \A i \in DOMAIN fut : ~fut[i].failed

\* What is left to do for the futures f of which y have been yielded.
Remaining(f, y) ==
    LET rank(i) == CASE f[i].state = "PENDING" -> 3
                     [] f[i].state = "RUNNING" -> 2
                     [] OTHER -> IF i \in y THEN 0 ELSE 1
        RECURSIVE Sum(_)
        Sum(S) == IF S = {} THEN 0
                  ELSE LET i == CHOOSE x \in S : TRUE IN rank(i) + Sum(S \ {i})
    IN  Sum(DOMAIN f)

\* While the collector runs: at most min(cpu_count, n) calls are in flight,
\* there is one future per ticker, and, when no lookup fails, some step other
\* than a failure can be taken until every future has been yielded, at which
\* point results holds exactly the record of each ticker, once.
C9_Collector ==
    (Collecting /\ Len(tickers) >= 1) =>
        /\ Cardinality(Running) <= Min(cpu_count, Len(tickers))
        /\ DOMAIN fut = DOMAIN tickers
        /\ AllSucceed =>
              /\ pc = "as_completed"
              /\ ENABLED (\/ \E i \in DOMAIN fut : worker_start(i)
                          \/ \E i \in DOMAIN fut : worker_returns(i)
                          \/ \E i \in DOMAIN fut : as_completed_next(i)
                          \/ load_ticker_profiles_filter)
              /\ Len(results) = Cardinality(yielded)
              /\ \A i \in yielded :
                    Cardinality({j \in DOMAIN results : results[j] = [TICKER |-> fut[i].result]}) = 1
              /\ yielded = DOMAIN fut => Len(results) = Len(tickers)

\* A step inside the collector never gives a call back to the queue or runs
\* it again, and it reduces what is left to do.
C9_Progress ==
    (Collecting /\ Collecting') =>
        /\ Remaining(fut', yielded') < Remaining(fut, yielded)
        /\ \A i \in DOMAIN fut :
              /\ fut[i].state = "RUNNING" => fut'[i].state # "PENDING"
              /\ fut[i].state = "FINISHED" => fut'[i] = fut[i]

\* C9: for n >= 1 tickers whose lookups all succeed, threaded_profiling has
\* at most min(cpu_count, n) requests in flight, issues one request per
\* ticker, and under every interleaving terminates with exactly one record
\* per ticker.
C9_BoundedPoolOneRecordEach == []C9_Collector /\ [][C9_Progress]_vars

\* Both lookups succeeded and were collected in the reverse of the order in
\* which they were submitted.
C9_Witness ==
    /\ pc = "as_completed"
    /\ Len(tickers) = 2
    /\ AllSucceed
    /\ yielded = DOMAIN fut
    /\ Len(results) = 2
    /\ results[1] = [TICKER |-> fut[2].result]
    /\ results[2] = [TICKER |-> fut[1].result]

\* C10: once a lookup has failed, the profile stage cannot complete: the
\* execution is still collecting, shutting the pool down or aborted, it has
\* neither read the existing tickers nor written a profile row nor reported a
\* profile count, it can still take a step until it has aborted, and it
\* aborts with the lookup's exception.
C10_LookupFailureIsFatal ==
    (\E i \in DOMAIN fut : fut[i].failed) =>
        /\ pc \in {"as_completed", "shutdown", "aborted"}
        /\ ~HasCall("read", "STOCK_PROFILES")
        /\ ~HasCall("write", "TICKER_PROFILES")
        /\ profiles = <<>>
        /\ ~Printed("new profiles ingested")
        /\ ~ENABLED load_ticker_profiles_filter
        /\ pc # "aborted" => ENABLED (\/ \E i \in DOMAIN fut : worker_start(i)
                                      \/ \E i \in DOMAIN fut : worker_returns(i)
                                      \/ \E i \in DOMAIN fut : worker_raises(i)
                                      \/ \E i \in DOMAIN fut : as_completed_next(i)
                                      \/ executor_exit_raises)
        /\ pc = "aborted" => exception = "profile_data"

\* One lookup succeeded and was collected, another failed, and the execution
\* has aborted.
C10_Witness ==
    /\ pc = "aborted"
    /\ exception = "profile_data"
    /\ Len(results) >= 1
    /\ \E i \in DOMAIN fut : fut[i].failed
    /\ \E i \in DOMAIN fut : ~fut[i].failed /\ i \in yielded

====
